---------------------------- MODULE Spec2Model ----------------------------
(***************************************************************************)
(* Model of the in-process caches of openbr_assistant:                     *)
(*   Cache              (src/openclaw-rs/src/cache.rs)  TTL-only map       *)
(*   TimedCache         (src/rust/src/cache.rs)         LRU map with TTL   *)
(*   GroupHistoryCache  (src/rust/src/cache.rs)         bounded histories  *)
(*                                                                         *)
(* Cache guards its map with a parking_lot RwLock that is taken and        *)
(* released inside single statements, so every statement that holds a      *)
(* guard is one atomic step and a method that takes the lock twice is      *)
(* two steps with other threads and the clock free to move in between.     *)
(* TimedCache and GroupHistoryCache hold one Mutex for the whole method,   *)
(* so each of their methods is a single atomic step.                       *)
(***************************************************************************)
EXTENDS Integers, Sequences, FiniteSets, TLC

(* ---------------------------- bounds ----------------------------------- *)
NumThreads == 2
NumKeys == 2
NumValues == 2
MaxTtl == 1
MaxTime == 2

Threads == 1..NumThreads
Keys == 1..NumKeys
Values == 1..NumValues
\* Option::None for Option<u64>, Option<Instant> and Option<String>
None == -1
\* ttl_ms: Option<u64>
Ttls == {None} \cup (1..MaxTtl)

VARIABLES
    clock,          \* Instant::now(), monotonic
    store,          \* Cache.store: HashMap<String, CacheEntry>
    default_ttl,    \* Cache.default_ttl: Option<u64>
    pc,             \* per thread: position inside a Cache method
    key,            \* per thread: the `key` argument of the running method
    value,          \* per thread: the `value` argument of a running set
    expires_at,     \* per thread: the `expires_at` local of a running set
    now,            \* per thread: the `now` local of cleanup_expired
    ret,            \* the last completed Cache call and what it returned
    written         \* (history) per observed key, the entry of the last completed set
    ,
    timed_inner,    \* TimedCache.inner: LruCache<String, CacheEntry>, most recent first
    capacity_arg,   \* (history) the `capacity` argument of TimedCache::new
    timed_cap,      \* the capacity the LruCache was built with
    timed_ttl,      \* TimedCache.ttl
    used,           \* (history) stored keys, most recent successful get/set first
    tret            \* the last completed TimedCache call and what it returned
    ,
    group_inner,    \* GroupHistoryCache.inner: HashMap<String, Vec<HistoryEntry>>
    max_entries_per_group,  \* GroupHistoryCache.max_entries_per_group
    arrivals,       \* (history) per group, every entry added since it was last cleared
    gret            \* the last completed GroupHistoryCache call and what it returned
    ,
    script,         \* per thread: the lock operations its running method still has to do
    guards,         \* per lock: the guards alive, as <<thread, mode>>
    waiters         \* per lock: the threads blocked in read()/write()/lock(), in arrival order

cache == <<store, default_ttl, pc, key, value, expires_at, now, ret, written>>
timed == <<timed_inner, capacity_arg, timed_cap, timed_ttl, used, tret>>
groups == <<group_inner, max_entries_per_group, arrivals, gret>>
locks == <<script, guards, waiters>>

vars == <<clock, cache, timed, groups, locks>>

locals == <<key, value, expires_at, now>>

(* ------------------------- Cache: helpers ------------------------------ *)

\* CacheEntry { value, expires_at }
CacheEntry(v, e) == [value |-> v, expires_at |-> e]

\* faulty variant: the default TTL is never consulted
EffectiveExpiryNoDefault(ttl, dflt, t) ==
    IF ttl = None THEN None ELSE t + ttl

\* ttl_ms.or(*self.default_ttl.read()).map(|ms| Instant::now() + from_millis(ms))
EffectiveExpiry(ttl, dflt, t) ==
    LET ms == IF ttl # None THEN ttl ELSE dflt
    IN  IF ms = None THEN None ELSE t + ms

\* faulty variant: the comparison is the wrong way round
IsExpiredReversed(entry, t) ==
    entry.expires_at # None /\ t < entry.expires_at

\* get: `if let Some(expires_at) = entry.expires_at { if Instant::now() > expires_at`
IsExpired(entry, t) ==
    entry.expires_at # None /\ t > entry.expires_at

\* faulty variant: an entry is swept at its expiry instant, before it has passed
RetainedStrict(entry, t) ==
    IF entry.expires_at = None THEN TRUE ELSE t < entry.expires_at

\* cleanup_expired: `.map_or(true, |expires_at| now <= expires_at)`
Retained(entry, t) ==
    IF entry.expires_at = None THEN TRUE ELSE t <= entry.expires_at

\* HashMap::remove(&key)
MapRemove(m, k) == [x \in (DOMAIN m) \ {k} |-> m[x]]

\* faulty variant: inserting a key drops every other key of the map
MapInsertClobber(m, k, e) == [x \in {k} |-> e]

\* HashMap::insert(key, entry)
MapInsert(m, k, e) == [x \in (DOMAIN m) \cup {k} |-> IF x = k THEN e ELSE m[x]]

\* HashMap::retain(|_, entry| ...)
MapRetain(m, t) == [x \in {y \in DOMAIN m : Retained(m[y], t)} |-> m[x]]

EmptyMap == [x \in {} |-> None]

\* op/key: the call; val: an Option<String> or a count; removed: what delete
\* returns and, for get, set and cleanup_expired, whether the call removed or
\* replaced an entry (history); keys: what keys() returns
Ret(op, k, val, rm, ks) ==
    [op |-> op, key |-> k, val |-> val, removed |-> rm, keys |-> ks]

\* what a call that returns () leaves behind
Unit == Ret("unit", None, None, FALSE, {})

Idle(t) == pc[t] = "idle"


(* ------------------------- Cache: operations --------------------------- *)

\* a method returns: the thread is idle again and its locals are dead
Return(t) ==
    /\ pc' = [pc EXCEPT ![t] = "idle"]
    /\ key' = [key EXCEPT ![t] = None]
    /\ value' = [value EXCEPT ![t] = None]
    /\ expires_at' = [expires_at EXCEPT ![t] = None]
    /\ now' = [now EXCEPT ![t] = None]

\* the thread moves on to its next statement, keeping key `k`
Goto(t, label, k) ==
    /\ pc' = [pc EXCEPT ![t] = label]
    /\ key' = [key EXCEPT ![t] = k]

\* Instant::now() moves forward between any two statements
Tick ==
    /\ clock < MaxTime
    /\ clock' = clock + 1
    /\ UNCHANGED <<store, default_ttl, pc, locals, ret>>
    /\ UNCHANGED <<written, timed, groups, locks>>

\* set_default_ttl: `*self.default_ttl.write() = ttl_ms`
SetDefaultTtl(t, ttl) ==
    /\ Idle(t)
    /\ default_ttl' = ttl
    /\ ret' = Unit
    /\ UNCHANGED <<clock, store, pc, locals>>
    /\ UNCHANGED <<written, timed, groups, locks>>

\* set, first statement: expires_at is computed from the default read under
\* the default_ttl read guard and from Instant::now()
SetBegin(t, k, v, ttl) ==
    /\ Idle(t)
    /\ Goto(t, "set_insert", k)
    /\ value' = [value EXCEPT ![t] = v]
    /\ expires_at' = [expires_at EXCEPT ![t] = EffectiveExpiry(ttl, default_ttl, clock)]
    /\ UNCHANGED <<clock, store, default_ttl, now, ret>>
    /\ UNCHANGED <<written, timed, groups, locks>>

\* faulty variant: an overwrite keeps the expiry of the entry it replaces
SetInsertKeepsExpiry(t) ==
    /\ pc[t] = "set_insert"
    /\ store' = MapInsert(store, key[t],
                          CacheEntry(value[t],
                                     IF key[t] \in DOMAIN store
                                     THEN store[key[t]].expires_at ELSE expires_at[t]))
    /\ ret' = Ret("set", None, None, key[t] \in DOMAIN store, {})
    /\ written' = [k \in DOMAIN written |->
                       IF k = key[t] THEN CacheEntry(value[t], expires_at[t])
                       ELSE written[k]]
    /\ Return(t)
    /\ UNCHANGED <<clock, default_ttl>>
    /\ UNCHANGED <<timed, groups, locks>>

\* set, second statement: `self.store.write().insert(key, CacheEntry {..})`
SetInsert(t) ==
    /\ pc[t] = "set_insert"
    /\ store' = MapInsert(store, key[t], CacheEntry(value[t], expires_at[t]))
    /\ ret' = Ret("set", None, None, key[t] \in DOMAIN store, {})
    /\ written' = [k \in DOMAIN written |->
                       IF k = key[t] THEN CacheEntry(value[t], expires_at[t])
                       ELSE written[k]]
    /\ Return(t)
    /\ UNCHANGED <<clock, default_ttl>>
    /\ UNCHANGED <<timed, groups, locks>>

\* what get decides while it holds the read guard:
\* "miss", "expired" (goes on to remove) or "hit"
Lookup(k) ==
    IF k \notin DOMAIN store THEN "miss"
    ELSE IF IsExpired(store[k], clock) THEN "expired"
    ELSE "hit"

\* get, under `self.store.read()`
GetRead(t, k) ==
    /\ Idle(t)
    /\ CASE Lookup(k) = "hit" ->
              /\ ret' = Ret("get", k, store[k].value, FALSE, {})
              /\ UNCHANGED <<pc, locals>>
         [] Lookup(k) = "miss" ->
              /\ ret' = Ret("get", k, None, FALSE, {})
              /\ UNCHANGED <<pc, locals>>
         [] Lookup(k) = "expired" ->
              \* drop(store): the read guard is released before the write
              /\ Goto(t, "get_remove", k)
              /\ UNCHANGED <<value, expires_at, now, ret>>
    /\ UNCHANGED <<clock, store, default_ttl>>
    /\ UNCHANGED <<written, timed, groups, locks>>

\* get, expired branch: `self.store.write().remove(&key); return None;`
GetRemove(t) ==
    /\ pc[t] = "get_remove"
    /\ store' = MapRemove(store, key[t])
    /\ ret' = Ret("get", key[t], None, key[t] \in DOMAIN store, {})
    /\ Return(t)
    /\ UNCHANGED <<clock, default_ttl>>
    /\ UNCHANGED <<written, timed, groups, locks>>

\* faulty variant: delete answers false for an entry that is stored but expired
DeleteReportsLive(t, k) ==
    /\ Idle(t)
    /\ store' = MapRemove(store, k)
    /\ ret' = Ret("delete", k, None, Lookup(k) = "hit", {})
    /\ UNCHANGED <<clock, default_ttl, pc, locals>>
    /\ UNCHANGED <<written, timed, groups, locks>>

\* delete: `self.store.write().remove(&key).is_some()`
Delete(t, k) ==
    /\ Idle(t)
    /\ store' = MapRemove(store, k)
    /\ ret' = Ret("delete", k, None, k \in DOMAIN store, {})
    /\ UNCHANGED <<clock, default_ttl, pc, locals>>
    /\ UNCHANGED <<written, timed, groups, locks>>

\* faulty variant: clear also forgets the default TTL
ClearAlsoDefault(t) ==
    /\ Idle(t)
    /\ store' = EmptyMap
    /\ default_ttl' = None
    /\ ret' = Ret("clear", None, None, FALSE, {})
    /\ UNCHANGED <<clock, pc, locals>>
    /\ UNCHANGED <<written, timed, groups, locks>>

\* clear: `self.store.write().clear()`
Clear(t) ==
    /\ Idle(t)
    /\ store' = EmptyMap
    /\ ret' = Ret("clear", None, None, FALSE, {})
    /\ UNCHANGED <<clock, default_ttl, pc, locals>>
    /\ UNCHANGED <<written, timed, groups, locks>>

\* size: `self.store.read().len() as u32`
Size(t) ==
    /\ Idle(t)
    /\ ret' = Ret("size", None, Cardinality(DOMAIN store), FALSE, {})
    /\ UNCHANGED <<clock, store, default_ttl, pc, locals>>
    /\ UNCHANGED <<written, timed, groups, locks>>

\* cleanup_expired, first statement: `let now = Instant::now();`
CleanupBegin(t) ==
    /\ Idle(t)
    /\ pc' = [pc EXCEPT ![t] = "cleanup_retain"]
    /\ now' = [now EXCEPT ![t] = clock]
    /\ UNCHANGED <<clock, store, default_ttl, key, value, expires_at, ret>>
    /\ UNCHANGED <<written, timed, groups, locks>>

\* cleanup_expired, under `self.store.write()`: store.retain(..)
CleanupRetain(t) ==
    /\ pc[t] = "cleanup_retain"
    /\ store' = MapRetain(store, now[t])
    /\ ret' = Ret("cleanup_expired", None, None, DOMAIN store' # DOMAIN store, {})
    /\ Return(t)
    /\ UNCHANGED <<clock, default_ttl>>
    /\ UNCHANGED <<written, timed, groups, locks>>

\* keys: `self.cleanup_expired();` reads the clock ...
KeysBegin(t) ==
    /\ Idle(t)
    /\ pc' = [pc EXCEPT ![t] = "keys_retain"]
    /\ now' = [now EXCEPT ![t] = clock]
    /\ UNCHANGED <<clock, store, default_ttl, key, value, expires_at, ret>>
    /\ UNCHANGED <<written, timed, groups, locks>>

\* ... sweeps under the write guard, which it releases ...
KeysRetain(t) ==
    /\ pc[t] = "keys_retain"
    /\ store' = MapRetain(store, now[t])
    /\ pc' = [pc EXCEPT ![t] = "keys_list"]
    /\ now' = [now EXCEPT ![t] = None]
    /\ UNCHANGED <<clock, default_ttl, key, value, expires_at, ret>>
    /\ UNCHANGED <<written, timed, groups, locks>>

\* ... and lists under a new read guard: `self.store.read().keys().cloned().collect()`
KeysList(t) ==
    /\ pc[t] = "keys_list"
    /\ ret' = Ret("keys", None, None, FALSE, DOMAIN store)
    /\ Return(t)
    /\ UNCHANGED <<clock, store, default_ttl>>
    /\ UNCHANGED <<written, timed, groups, locks>>

(* ---------------------- TimedCache: the LruCache ----------------------- *)
\* TimedCache keeps an lru::LruCache, modelled as the sequence of its entries
\* from the most recently used (index 1) to the least recently used (the tail).

NumTimedKeys == 3
MaxCapacity == 2
MaxTtlSeconds == 2
TimedKeys == 1..NumTimedKeys

\* NonZeroUsize::new(100).unwrap()
DefaultCapacity == 100

\* CacheEntry { value, inserted_at } stored under `k`
TimedEntry(k, v, at) == [key |-> k, value |-> v, inserted_at |-> at]

SeqKeys(c) == {c[i].key : i \in 1..Len(c)}

LruContains(c, k) == k \in SeqKeys(c)

LruEntry(c, k) == c[CHOOSE i \in 1..Len(c) : c[i].key = k]

\* faulty variant: the least recently used entry is unlinked, as pop_lru() does
LruPopLru(c, k) == SubSeq(c, 1, Len(c) - 1)

\* LruCache::pop(&key): unlink the entry
LruPop(c, k) == SelectSeq(c, LAMBDA e : e.key # k)

\* faulty variant: a hit leaves the recency order alone
LruGetNoPromote(c, k) == c

\* LruCache::get(&key): a hit moves the entry to the most-recent end
LruGet(c, k) ==
    IF LruContains(c, k) THEN <<LruEntry(c, k)>> \o LruPop(c, k) ELSE c

\* faulty variant: a new key is always added, whatever the length
LruPutNoEvict(c, capacity, e) ==
    IF LruContains(c, e.key) THEN <<e>> \o LruPop(c, e.key) ELSE <<e>> \o c

\* faulty variant: a full store evicts its least recent entry before it looks
\* whether the key is already stored
LruPutEvictsFirst(c, capacity, e) ==
    IF Len(c) >= capacity
    THEN <<e>> \o LruPop(SubSeq(c, 1, Len(c) - 1), e.key)
    ELSE <<e>> \o LruPop(c, e.key)

\* LruCache::put(key, entry): an existing key is replaced and moved to the
\* most-recent end; a new key at full capacity replaces the least recent one
LruPut(c, capacity, e) ==
    IF LruContains(c, e.key) THEN <<e>> \o LruPop(c, e.key)
    ELSE IF Len(c) >= capacity THEN <<e>> \o SubSeq(c, 1, Len(c) - 1)
    ELSE <<e>> \o c

\* faulty variant: a zero capacity is raised to the smallest legal capacity
EffectiveCapacityClampOne(capacity) == IF capacity = 0 THEN 1 ELSE capacity

\* NonZeroUsize::new(capacity as usize).unwrap_or(NonZeroUsize::new(100).unwrap())
EffectiveCapacity(capacity) ==
    IF capacity = 0 THEN DefaultCapacity ELSE capacity

\* history: `k` was just used successfully; only keys still stored are kept
Touch(u, k, c) ==
    SelectSeq(<<k>> \o SelectSeq(u, LAMBDA x : x # k), LAMBDA x : x \in SeqKeys(c))

\* history: nothing was used; only keys still stored are kept
Forget(u, c) == SelectSeq(u, LAMBDA x : x \in SeqKeys(c))

\* faulty variant: an entry is still served when exactly ttl has elapsed
FreshInclusive(entry, t, ttl) == t - entry.inserted_at <= ttl

\* `entry.inserted_at.elapsed() < self.ttl`
Fresh(entry, t, ttl) == t - entry.inserted_at < ttl

\* op/key: the call; val: an Option<String> or a count and, for set, the
\* value the call replaced (history: what LruCache::put returns and set drops);
\* removed (history): the keys the call removed from the LruCache
TRet(op, k, val, rm) == [op |-> op, key |-> k, val |-> val, removed |-> rm]

(* ---------------------- TimedCache: operations ------------------------- *)

\* TimedCache::new(capacity, ttl_seconds)
TimedNew(capacity, ttl_seconds) ==
    /\ timed_inner = <<>>
    /\ capacity_arg = capacity
    /\ timed_cap = EffectiveCapacity(capacity)
    /\ timed_ttl = ttl_seconds
    /\ used = <<>>
    /\ tret = TRet("new", None, None, {})

TimedTick ==
    /\ clock < MaxTime
    /\ clock' = clock + 1
    /\ UNCHANGED <<timed, cache, groups, locks>>

\* faulty variant: a hit restamps the entry (sliding expiration)
TimedGetRefreshes(k) ==
    /\ LET promoted == LruGet(timed_inner, k)
       IN  IF ~LruContains(timed_inner, k)
           THEN /\ tret' = TRet("get", k, None, {})
                /\ timed_inner' = promoted
                /\ used' = Forget(used, promoted)
           ELSE IF Fresh(LruEntry(timed_inner, k), clock, timed_ttl)
           THEN /\ timed_inner' = <<TimedEntry(k, LruEntry(timed_inner, k).value, clock)>>
                                     \o LruPop(timed_inner, k)
                /\ used' = Touch(used, k, promoted)
                /\ tret' = TRet("get", k, LruEntry(timed_inner, k).value, {})
           ELSE /\ timed_inner' = LruPop(promoted, k)
                /\ used' = Forget(used, LruPop(promoted, k))
                /\ tret' = TRet("get", k, None, {k})
    /\ UNCHANGED <<clock, capacity_arg, timed_cap, timed_ttl, cache, groups, locks>>

\* TimedCache::get, the whole method under the Mutex
TimedGet(k) ==
    /\ LET promoted == LruGet(timed_inner, k)
       IN  IF ~LruContains(timed_inner, k)
           THEN /\ tret' = TRet("get", k, None, {})
                /\ timed_inner' = promoted
                /\ used' = Forget(used, promoted)
           ELSE IF Fresh(LruEntry(timed_inner, k), clock, timed_ttl)
           THEN /\ timed_inner' = promoted
                /\ used' = Touch(used, k, promoted)
                /\ tret' = TRet("get", k, LruEntry(timed_inner, k).value, {})
           ELSE \* Entry expired, remove it
                /\ timed_inner' = LruPop(promoted, k)
                /\ used' = Forget(used, LruPop(promoted, k))
                /\ tret' = TRet("get", k, None, {k})
    /\ UNCHANGED <<clock, capacity_arg, timed_cap, timed_ttl, cache, groups, locks>>

\* TimedCache::set, the whole method under the Mutex
TimedSet(k, v) ==
    /\ timed_inner' = LruPut(timed_inner, timed_cap, TimedEntry(k, v, clock))
    /\ used' = Touch(used, k, timed_inner')
    /\ tret' = TRet("set", k,
                     IF LruContains(timed_inner, k) THEN LruEntry(timed_inner, k).value ELSE None,
                     SeqKeys(timed_inner) \ SeqKeys(timed_inner'))
    /\ UNCHANGED <<clock, capacity_arg, timed_cap, timed_ttl, cache, groups, locks>>

\* TimedCache::len
TimedLen ==
    /\ tret' = TRet("len", None, Len(timed_inner), {})
    /\ UNCHANGED <<clock, timed_inner, capacity_arg, timed_cap, timed_ttl, used, cache, groups, locks>>

\* TimedCache::clear
TimedClear ==
    /\ timed_inner' = <<>>
    /\ used' = <<>>
    /\ tret' = TRet("clear", None, None, {})
    /\ UNCHANGED <<clock, capacity_arg, timed_cap, timed_ttl, cache, groups, locks>>

(* -------------------- GroupHistoryCache: operations -------------------- *)

NumGroups == 2
MaxEntries == 3
MaxTimestamp == 2
NumContents == 1
MaxAdds == 4
Groups == 1..NumGroups

\* HistoryEntry { timestamp, content }
HistoryEntries == [timestamp : 1..MaxTimestamp, content : 1..NumContents]

GRet(op, g, entries) == [op |-> op, group |-> g, entries |-> entries]

\* GroupHistoryCache::new(max_entries)
GroupHistoryNew(max_entries) ==
    /\ group_inner = EmptyMap
    /\ max_entries_per_group = max_entries
    /\ arrivals = [g \in Groups |-> <<>>]
    /\ gret = GRet("new", None, <<>>)

\* faulty variant: the history is never truncated
PushUnbounded(history, entry, max) == Append(history, entry)

\* faulty variant: on overflow the newest entry is dropped instead of the oldest
PushDropNewest(history, entry, max) ==
    IF Len(history) + 1 > max THEN history ELSE Append(history, entry)

\* faulty variant: on overflow the history is restarted with the new entry
PushResetOnOverflow(history, entry, max) ==
    IF Len(history) + 1 > max THEN <<entry>> ELSE Append(history, entry)

\* history.push(entry); if history.len() > max { history.remove(0); }
PushBounded(history, entry, max) ==
    LET pushed == Append(history, entry)
    IN  IF Len(pushed) > max THEN Tail(pushed) ELSE pushed

\* GroupHistoryCache::add, the whole method under the Mutex
GroupAdd(g, entry) ==
    /\ Len(arrivals[g]) < MaxAdds
    /\ LET history == IF g \in DOMAIN group_inner THEN group_inner[g] ELSE <<>>
       IN  group_inner' = MapInsert(group_inner, g,
                                    PushBounded(history, entry, max_entries_per_group))
    /\ arrivals' = [arrivals EXCEPT ![g] = Append(@, entry)]
    /\ gret' = GRet("add", g, <<>>)
    /\ UNCHANGED <<clock, max_entries_per_group, cache, timed, locks>>

\* faulty variant: looking a group up creates it, as `entry().or_default()` would
GroupGetCreates(g) ==
    /\ gret' = GRet("get", g, IF g \in DOMAIN group_inner THEN group_inner[g] ELSE <<>>)
    /\ group_inner' = IF g \in DOMAIN group_inner THEN group_inner
                      ELSE MapInsert(group_inner, g, <<>>)
    /\ UNCHANGED <<clock, max_entries_per_group, arrivals, cache, timed, locks>>

\* GroupHistoryCache::get: `cache.get(&group_id).cloned().unwrap_or_default()`
GroupGet(g) ==
    /\ gret' = GRet("get", g, IF g \in DOMAIN group_inner THEN group_inner[g] ELSE <<>>)
    /\ UNCHANGED <<clock, group_inner, max_entries_per_group, arrivals, cache, timed, locks>>

\* GroupHistoryCache::clear_group: `cache.remove(&group_id)`
GroupClear(g) ==
    /\ group_inner' = MapRemove(group_inner, g)
    /\ arrivals' = [arrivals EXCEPT ![g] = <<>>]
    /\ gret' = GRet("clear_group", g, <<>>)
    /\ UNCHANGED <<clock, max_entries_per_group, cache, timed, locks>>

(* ------------------------------- locks --------------------------------- *)
\* Cache.store and Cache.default_ttl are parking_lot RwLocks;
\* TimedCache.inner and GroupHistoryCache.inner are std Mutexes
Locks == {"store", "default_ttl", "timed_inner", "group_inner"}

\* after construction no method runs, no guard is alive and nobody waits
LocksNew ==
    /\ script = [t \in Threads |-> <<>>]
    /\ guards = [l \in Locks |-> {}]
    /\ waiters = [l \in Locks |-> <<>>]

\* one lock operation of a method: "read", "write" (RwLock), "lock" (Mutex)
\* or "drop" (the guard goes out of scope or is dropped)
Op(op, l) == [op |-> op, lock |-> l]

Methods ==
    {"set_default_ttl", "set", "get", "get_expired", "delete", "has", "has_expired",
     "keys", "clear", "size", "cleanup_expired",
     "timed_get", "timed_set", "timed_len", "timed_clear",
     "group_add", "group_get", "group_clear_group"}

\* faulty variant: the expired branch takes the write lock with the read guard alive
GetExpiredScriptNoDrop ==
    << Op("read", "store"), Op("write", "store"), Op("drop", "store"), Op("drop", "store") >>

\* get, expired branch: `let store = self.store.read(); .. drop(store);
\* self.store.write().remove(&key); return None;`
GetExpiredScript ==
    << Op("read", "store"), Op("drop", "store"), Op("write", "store"), Op("drop", "store") >>

\* the lock operations of each method in program order. A guard that is a
\* temporary of a statement is dropped at the end of that statement; a guard
\* bound by `let` is dropped when the method returns. "get"/"has" are the hit
\* and miss paths, "get_expired"/"has_expired" the expired branch.
LockScript(method) ==
    CASE method = "set_default_ttl" ->
            << Op("write", "default_ttl"), Op("drop", "default_ttl") >>
      [] method = "set" ->
            << Op("read", "default_ttl"), Op("drop", "default_ttl"),
               Op("write", "store"), Op("drop", "store") >>
      [] method \in {"get", "has", "size"} ->
            << Op("read", "store"), Op("drop", "store") >>
      [] method \in {"get_expired", "has_expired"} -> GetExpiredScript
      [] method \in {"delete", "clear", "cleanup_expired"} ->
            << Op("write", "store"), Op("drop", "store") >>
      [] method = "keys" ->
            << Op("write", "store"), Op("drop", "store"),
               Op("read", "store"), Op("drop", "store") >>
      [] method \in {"timed_get", "timed_set", "timed_len", "timed_clear"} ->
            << Op("lock", "timed_inner"), Op("drop", "timed_inner") >>
      [] method \in {"group_add", "group_get", "group_clear_group"} ->
            << Op("lock", "group_inner"), Op("drop", "group_inner") >>

\* the thread is inside a method
Busy(t) == script[t] # <<>>

NextOp(t) == Head(script[t])

\* the thread's next statement is a read(), write() or lock() call
AtAcquire(t) == Busy(t) /\ NextOp(t).op \in {"read", "write", "lock"}

\* the locks on which the thread has a guard alive
Held(t) == {l \in Locks : \E g \in guards[l] : g[1] = t}

\* the thread is blocked in the lock's queue
Queued(t, l) == \E i \in 1..Len(waiters[l]) : waiters[l][i][1] = t

\* a read guard coexists with read guards, a write or Mutex guard with none
Compatible(l, mode) ==
    IF mode = "read" THEN \A g \in guards[l] : g[2] = "read" ELSE guards[l] = {}

\* a thread calls a method
Call(t, method) ==
    /\ ~Busy(t)
    /\ script' = [script EXCEPT ![t] = LockScript(method)]
    /\ UNCHANGED <<guards, waiters>>
    /\ UNCHANGED <<clock, cache, timed, groups>>

\* read() / write() / lock(): the thread joins the lock's queue
Request(t) ==
    /\ AtAcquire(t)
    /\ ~Queued(t, NextOp(t).lock)
    /\ waiters' = [waiters EXCEPT ![NextOp(t).lock] = Append(@, <<t, NextOp(t).op>>)]
    /\ UNCHANGED <<script, guards>>
    /\ UNCHANGED <<clock, cache, timed, groups>>

\* the lock is handed to the longest-waiting thread as soon as the guards
\* alive allow it (locks are granted in arrival order)
Grant(t) ==
    /\ AtAcquire(t)
    /\ LET l == NextOp(t).lock
       IN  /\ waiters[l] # <<>>
           /\ Head(waiters[l])[1] = t
           /\ Compatible(l, NextOp(t).op)
           /\ guards' = [guards EXCEPT ![l] = @ \cup {<<t, NextOp(t).op>>}]
           /\ waiters' = [waiters EXCEPT ![l] = Tail(@)]
    /\ script' = [script EXCEPT ![t] = Tail(@)]
    /\ UNCHANGED <<clock, cache, timed, groups>>

\* the guard is dropped; after a method's last drop the method has returned
Drop(t) ==
    /\ Busy(t)
    /\ NextOp(t).op = "drop"
    /\ guards' = [guards EXCEPT ![NextOp(t).lock] = {g \in @ : g[1] # t}]
    /\ script' = [script EXCEPT ![t] = Tail(@)]
    /\ UNCHANGED waiters
    /\ UNCHANGED <<clock, cache, timed, groups>>

(* --------------------------- specifications ---------------------------- *)

\* Cache::new()
InitCache ==
    /\ clock = 0
    /\ store = EmptyMap
    /\ default_ttl = None
    /\ pc = [t \in Threads |-> "idle"]
    /\ key = [t \in Threads |-> None]
    /\ value = [t \in Threads |-> None]
    /\ expires_at = [t \in Threads |-> None]
    /\ now = [t \in Threads |-> None]
    /\ ret = Unit
    /\ written = EmptyMap
    /\ LocksNew
    /\ TimedNew(0, 0)
    /\ GroupHistoryNew(0)

NextCache ==
    \/ Tick
    \/ \E t \in Threads, ttl \in Ttls : SetDefaultTtl(t, ttl)
    \/ \E t \in Threads, k \in Keys, v \in Values, ttl \in Ttls : SetBegin(t, k, v, ttl)
    \/ \E t \in Threads : SetInsert(t)
    \/ \E t \in Threads, k \in Keys : GetRead(t, k)
    \/ \E t \in Threads : GetRemove(t)
    \/ \E t \in Threads, k \in Keys : Delete(t, k)
    \/ \E t \in Threads : Clear(t)
    \/ \E t \in Threads : Size(t)
    \/ \E t \in Threads : CleanupBegin(t)
    \/ \E t \in Threads : CleanupRetain(t)
    \/ \E t \in Threads : KeysBegin(t)
    \/ \E t \in Threads : KeysRetain(t)
    \/ \E t \in Threads : KeysList(t)

SpecCache == InitCache /\ [][NextCache]_vars


\* the keys that only thread t uses when the threads work on disjoint keys
Own(t) == {k \in Keys : ((k - 1) % NumThreads) + 1 = t}

\* Cache::new(), with the last completed set of every key recorded
InitDisjoint ==
    /\ clock = 0
    /\ store = EmptyMap
    /\ default_ttl = None
    /\ pc = [t \in Threads |-> "idle"]
    /\ key = [t \in Threads |-> None]
    /\ value = [t \in Threads |-> None]
    /\ expires_at = [t \in Threads |-> None]
    /\ now = [t \in Threads |-> None]
    /\ ret = Unit
    /\ written = [k \in Keys |-> CacheEntry(None, None)]
    /\ LocksNew
    /\ TimedNew(0, 0)
    /\ GroupHistoryNew(0)

\* every thread calls set and get, each only on its own keys
NextDisjoint ==
    \/ Tick
    \/ \E t \in Threads : \E k \in Own(t), v \in Values, ttl \in Ttls : SetBegin(t, k, v, ttl)
    \/ \E t \in Threads : SetInsert(t)
    \/ \E t \in Threads : \E k \in Own(t) : GetRead(t, k)
    \/ \E t \in Threads : GetRemove(t)

SpecDisjoint == InitDisjoint /\ [][NextDisjoint]_vars


\* the three stores as constructed; only their locks are followed
InitLocks ==
    /\ clock = 0
    /\ store = EmptyMap
    /\ default_ttl = None
    /\ pc = [t \in Threads |-> "idle"]
    /\ key = [t \in Threads |-> None]
    /\ value = [t \in Threads |-> None]
    /\ expires_at = [t \in Threads |-> None]
    /\ now = [t \in Threads |-> None]
    /\ ret = Unit
    /\ written = EmptyMap
    /\ LocksNew
    /\ TimedNew(0, 0)
    /\ GroupHistoryNew(0)

NextLocks ==
    \/ \E t \in Threads, method \in Methods : Call(t, method)
    \/ \E t \in Threads : Request(t)
    \/ \E t \in Threads : Grant(t)
    \/ \E t \in Threads : Drop(t)

SpecLocks == InitLocks /\ [][NextLocks]_vars

\* fair scheduling: a thread that can take its next step eventually takes it
\* (nobody is obliged to call a method)
FairSpecLocks ==
    /\ SpecLocks
    /\ \A t \in Threads :
          WF_vars(Request(t)) /\ WF_vars(Grant(t)) /\ WF_vars(Drop(t))

\* a TimedCache built with any capacity and ttl, the other stores unused
InitTimed ==
    /\ clock = 0
    /\ \E capacity \in 0..MaxCapacity, ttl_seconds \in 0..MaxTtlSeconds :
           TimedNew(capacity, ttl_seconds)
    /\ store = EmptyMap
    /\ default_ttl = None
    /\ pc = [t \in Threads |-> "idle"]
    /\ key = [t \in Threads |-> None]
    /\ value = [t \in Threads |-> None]
    /\ expires_at = [t \in Threads |-> None]
    /\ now = [t \in Threads |-> None]
    /\ ret = Unit
    /\ written = EmptyMap
    /\ LocksNew
    /\ GroupHistoryNew(0)

NextTimed ==
    \/ TimedTick
    \/ \E k \in TimedKeys : TimedGet(k)
    \/ \E k \in TimedKeys, v \in Values : TimedSet(k, v)
    \/ TimedLen
    \/ TimedClear

SpecTimed == InitTimed /\ [][NextTimed]_vars

\* one key more than the default capacity holds
FillKeys == 1..(DefaultCapacity + 1)

\* the key set most recently, 0 in an empty store
Newest == IF timed_inner = <<>> THEN 0 ELSE timed_inner[1].key

\* a TimedCache is filled by setting new keys, each one more than the last,
\* and its length is read in between
NextTimedFill ==
    \/ \E k \in FillKeys : k = Newest + 1 /\ TimedSet(k, 1)
    \/ TimedLen

SpecTimedFill == InitTimed /\ [][NextTimedFill]_vars

\* a GroupHistoryCache built with any bound, the other stores unused
InitGroups ==
    /\ clock = 0
    /\ \E max_entries \in 0..MaxEntries : GroupHistoryNew(max_entries)
    /\ store = EmptyMap
    /\ default_ttl = None
    /\ pc = [t \in Threads |-> "idle"]
    /\ key = [t \in Threads |-> None]
    /\ value = [t \in Threads |-> None]
    /\ expires_at = [t \in Threads |-> None]
    /\ now = [t \in Threads |-> None]
    /\ ret = Unit
    /\ written = EmptyMap
    /\ LocksNew
    /\ TimedNew(0, 0)

NextGroups ==
    \/ \E g \in Groups, entry \in HistoryEntries : GroupAdd(g, entry)
    \/ \E g \in Groups : GroupGet(g)
    \/ \E g \in Groups : GroupClear(g)

SpecGroups == InitGroups /\ [][NextGroups]_vars


\* the Cache is as Cache::new() left it
CacheFresh ==
    /\ store = EmptyMap
    /\ default_ttl = None
    /\ \A t \in Threads : Idle(t)
    /\ ret = Unit

\* the TimedCache is as TimedCache::new(0, 0) left it
TimedFresh == tret.op = "new" /\ capacity_arg = 0 /\ timed_ttl = 0

\* the GroupHistoryCache is as GroupHistoryCache::new(0) left it
GroupsFresh == gret.op = "new" /\ max_entries_per_group = 0

InitStores == InitCache \/ InitTimed \/ InitGroups

\* the three stores share no state: a run uses one of them, in any way
NextStores ==
    \/ TimedFresh /\ GroupsFresh /\ NextCache
    \/ CacheFresh /\ GroupsFresh /\ NextTimed
    \/ CacheFresh /\ TimedFresh /\ NextGroups

SpecStores == InitStores /\ [][NextStores]_vars


(* ------------------------------ Cache claims --------------------------- *)

\* the expiry instant of `entry` lies strictly before `t`
Passed(entry, t) == entry.expires_at # None /\ entry.expires_at < t

\* C1: every Cache operation takes effect atomically; in particular a get
\* that found an expired entry never removes an entry that is live when the
\* removal happens (one that a concurrent set wrote after the expiry check),
\* so after a get and a concurrent set both complete the key holds the value.
C1_GetRemovesOnlyExpired ==
    [][\A t \in Threads :
        (GetRemove(t) /\ key[t] \in DOMAIN store) => Passed(store[key[t]], clock)]_vars

\* C2: after set(k, v, ttl = d) at time t0, with no write to k in between,
\* get(k) at time t0 + t returns v when t < d and absent when t >= d: the set
\* gives the entry the expiry t0 + d, and a get returns the value exactly
\* while the clock is strictly before that expiry.
C2_TtlCorrectness ==
    [][/\ \A t \in Threads, k \in Keys, v \in Values, d \in Ttls \ {None} :
            SetBegin(t, k, v, d) => expires_at'[t] = clock + d
       /\ \A t \in Threads :
            SetInsert(t) => store'[key[t]] = CacheEntry(value[t], expires_at[t])
       /\ \A t \in Threads, k \in Keys :
            (GetRead(t, k) /\ k \in DOMAIN store /\ store[k].expires_at # None) =>
                IF clock < store[k].expires_at
                THEN ret' = Ret("get", k, store[k].value, FALSE, {})
                ELSE pc'[t] = "get_remove"
      ]_vars

\* C7: get(k) never returns the value of an entry whose expiry has passed; a
\* get(k) that finds k stored but expired returns absent and removes k's
\* entry: the size drops by exactly one and no other key is touched.
C7_LazyEviction ==
    [][\A t \in Threads :
        /\ \A k \in Keys :
             GetRead(t, k) =>
                /\ (pc'[t] = "idle" /\ ret'.val # None) =>
                      /\ k \in DOMAIN store
                      /\ ~Passed(store[k], clock)
                      /\ ret' = Ret("get", k, store[k].value, FALSE, {})
                /\ (k \in DOMAIN store /\ Passed(store[k], clock)) =>
                      /\ pc'[t] = "get_remove"
                      /\ key'[t] = k
                      /\ ret' = ret
        /\ GetRemove(t) =>
             /\ ret'.op = "get" /\ ret'.key = key[t] /\ ret'.val = None
             /\ DOMAIN store' = DOMAIN store \ {key[t]}
             /\ \A j \in DOMAIN store' : store'[j] = store[j]
             /\ key[t] \in DOMAIN store =>
                   Cardinality(DOMAIN store') = Cardinality(DOMAIN store) - 1
      ]_vars

\* C7 witness: a get has just removed an expired entry and another key stays
C7_Witness ==
    /\ ret.op = "get" /\ ret.val = None /\ ret.removed
    /\ ret.key \notin DOMAIN store
    /\ DOMAIN store # {}

\* C8: every key in the result of keys() is stored and not expired at the
\* moment the key list is taken, whatever other threads and the clock did
\* since the call began.
C8_KeysNeverStale ==
    [][\A t \in Threads :
        KeysList(t) =>
            \A k \in ret'.keys : k \in DOMAIN store /\ ~Passed(store[k], clock)]_vars

\* C10: set uses the explicit ttl when given, otherwise the default TTL in
\* force when the set reads it, otherwise no expiry, and stores exactly that
\* expiry; set_default_ttl changes the default and nothing else: not the
\* stored entries, nor the expiry a running set has already computed.
C10_DefaultTtl ==
    [][\A t \in Threads :
        /\ \A k \in Keys, v \in Values, ttl \in Ttls :
             SetBegin(t, k, v, ttl) =>
                expires_at'[t] = IF ttl # None THEN clock + ttl
                                 ELSE IF default_ttl # None THEN clock + default_ttl
                                 ELSE None
        /\ SetInsert(t) =>
             /\ store'[key[t]].expires_at = expires_at[t]
             /\ store'[key[t]].value = value[t]
        /\ \A ttl \in Ttls :
             SetDefaultTtl(t, ttl) =>
                /\ default_ttl' = ttl
                /\ store' = store
                /\ expires_at' = expires_at
      ]_vars

\* C10 witness: a default is in force, one stored entry was written without
\* any expiry (before the default was set) and another one has an expiry
C10_Witness ==
    /\ default_ttl # None
    /\ \E k \in DOMAIN store, j \in DOMAIN store :
          store[k].expires_at = None /\ store[j].expires_at # None

(* --------------------------- TimedCache claims ------------------------- *)

\* C3: after any completed sequence of set/get/clear the number of stored
\* entries is at most the effective capacity, which is at least 1, and no
\* key is stored twice.
C3_CapacityInvariant ==
    /\ timed_cap >= 1
    /\ Len(timed_inner) <= timed_cap
    /\ Cardinality(SeqKeys(timed_inner)) = Len(timed_inner)

\* C3 witness: a set on a full store has just evicted and the store is full
C3_Witness ==
    /\ tret.op = "set" /\ tret.removed # {}
    /\ Len(timed_inner) = timed_cap

\* C4: a set of a key that is not stored, on a store that holds capacity
\* entries, removes exactly one key, the one whose most recent successful
\* get or set is the oldest, expired or not; every other entry stays as it is.
C4_EvictionOrder ==
    [][\A k \in TimedKeys, v \in Values :
        (TimedSet(k, v) /\ ~LruContains(timed_inner, k) /\ Len(timed_inner) = timed_cap) =>
            LET victim == used[Len(used)]
            IN  /\ SeqKeys(timed_inner') = (SeqKeys(timed_inner) \ {victim}) \cup {k}
                /\ Cardinality(SeqKeys(timed_inner')) = timed_cap
                /\ \A j \in SeqKeys(timed_inner) \ {victim} :
                      LruEntry(timed_inner', j) = LruEntry(timed_inner, j)
      ]_vars

\* C4 witness: capacity 2, a set has evicted one key, and the older entry
\* that survived is already TTL-expired
C4_Witness ==
    /\ timed_cap = 2 /\ timed_ttl > 0
    /\ tret.op = "set" /\ tret.removed # {}
    /\ \E j \in SeqKeys(timed_inner) \ {tret.key} :
          clock - LruEntry(timed_inner, j).inserted_at >= timed_ttl

\* C9: a set stamps the entry with the current time; get(k) on a stored key
\* returns its value only when less than ttl has elapsed since that stamp,
\* and otherwise removes the entry and returns absent.
C9_TtlGate ==
    [][\A k \in TimedKeys :
        /\ \A v \in Values :
             TimedSet(k, v) => LruEntry(timed_inner', k) = TimedEntry(k, v, clock)
        /\ (TimedGet(k) /\ LruContains(timed_inner, k)) =>
             LET entry == LruEntry(timed_inner, k)
             IN  IF clock - entry.inserted_at < timed_ttl
                 THEN /\ tret'.val = entry.value
                      /\ LruEntry(timed_inner', k) = entry
                 ELSE /\ tret'.val = None
                      /\ SeqKeys(timed_inner') = SeqKeys(timed_inner) \ {k}
      ]_vars

\* C9 witness: a get has just removed an expired entry from a store whose
\* capacity (the default one) was never reached
C9_Witness ==
    /\ timed_cap = DefaultCapacity /\ timed_ttl > 0
    /\ tret.op = "get" /\ tret.val = None /\ tret.removed = {tret.key}
    /\ timed_inner # <<>>

(* ----------------------- GroupHistoryCache claims ---------------------- *)

\* C5: whatever bound the constructor was given, no group's sequence is ever
\* longer than max_entries_per_group.
C5_HistoryBound ==
    \A g \in DOMAIN group_inner : Len(group_inner[g]) <= max_entries_per_group

\* C5 witness: a group received more entries than the bound and is full
C5_Witness ==
    \E g \in DOMAIN group_inner :
        /\ max_entries_per_group >= 1
        /\ Len(arrivals[g]) > max_entries_per_group
        /\ Len(group_inner[g]) = max_entries_per_group

\* the last n elements of q
LastN(q, n) == SubSeq(q, Len(q) - n + 1, Len(q))

Min(a, b) == IF a < b THEN a ELSE b

\* C6: after n adds to a group since it was last cleared, get(group) returns
\* exactly the last min(n, max_entries_per_group) entries in arrival order,
\* whatever their timestamps.
C6_FifoContent ==
    [][\A g \in Groups :
        GroupGet(g) =>
            gret'.entries =
                LastN(arrivals[g], Min(Len(arrivals[g]), max_entries_per_group))]_vars

\* C6 witness: max 3, four adds, get returned three entries whose timestamps
\* are not in increasing order
C6_Witness ==
    /\ max_entries_per_group = 3
    /\ gret.op = "get"
    /\ Len(arrivals[gret.group]) = 4
    /\ Len(gret.entries) = 3
    /\ gret.entries[1].timestamp > gret.entries[2].timestamp

(* ------------------------ Cache claims, continued ---------------------- *)

\* C11: when every thread sets and gets only its own keys, a get(k) that
\* starts after the thread's latest set(k, v) returned, and not after the
\* expiry that set gave its entry, returns v: no interleaving of the other
\* threads' sets and gets loses or changes it.
C11_DisjointKeys ==
    [][\A t \in Threads : \A k \in Own(t) :
          (/\ GetRead(t, k)
           /\ written[k].value # None
           /\ ~Passed(written[k], clock))
          => ret' = Ret("get", k, written[k].value, FALSE, {})]_vars

\* a thread got back its own value while the other thread, in the middle of a
\* set, has its own key stored too
C11_Witness ==
    \E t \in Threads : \E u \in Threads \ {t} : \E k \in Own(t) : \E j \in Own(u) :
        /\ ret = Ret("get", k, written[k].value, FALSE, {})
        /\ written[k].value # None
        /\ pc[t] = "idle"
        /\ pc[u] = "set_insert"
        /\ j \in DOMAIN store

\* C12: no thread is ever at a read(), write() or lock() call while it has a
\* guard of any lock alive, and under fair scheduling every method that was
\* called returns, whatever the other threads call.
C12_DeadlockFree ==
    /\ [](\A t \in Threads : AtAcquire(t) => Held(t) = {})
    /\ \A t \in Threads : Busy(t) ~> ~Busy(t)

\* a thread waits for the store's write lock, after it dropped its read guard,
\* behind a thread that holds a read guard
C12_Witness ==
    \E t \in Threads : \E u \in Threads \ {t} :
        /\ script[t] = << Op("write", "store"), Op("drop", "store") >>
        /\ Queued(t, "store")
        /\ Held(t) = {}
        /\ <<u, "read">> \in guards["store"]

\* C15: a clear step leaves the store empty whatever it held, changes nothing
\* else (the default TTL, the other threads' running calls) and, on a store
\* that is already empty, changes nothing at all, so a second clear is the
\* same as one; on an empty store size answers 0 and keys lists no key.
C15_IdempotentClear ==
    [][\A t \in Threads :
          /\ Clear(t) =>
                /\ store' = EmptyMap
                /\ default_ttl' = default_ttl
                /\ pc' = pc /\ key' = key /\ value' = value
                /\ expires_at' = expires_at /\ now' = now
                /\ store = EmptyMap => store' = store
          /\ (Size(t) /\ store = EmptyMap) => ret' = Ret("size", None, 0, FALSE, {})
          /\ (KeysList(t) /\ store = EmptyMap) => ret' = Ret("keys", None, None, FALSE, {})
      ]_vars

\* a clear has just returned: the store is empty and the default TTL that was
\* set before is still there
C15_Witness ==
    /\ ret.op = "clear"
    /\ store = EmptyMap
    /\ default_ttl # None

\* C16: a set of a key that is already stored replaces its entry wholesale:
\* the expiry the set computes does not depend on the stored entry (with no
\* ttl and no default it is None, even where the stored entry has a finite
\* expiry), and its insert leaves under the key exactly the new value and the
\* new expiry, with the same keys stored and every other entry untouched.
C16_Overwrite ==
    [][\A t \in Threads :
          /\ \A k \in DOMAIN store : \A v \in Values :
                (SetBegin(t, k, v, None) /\ default_ttl = None)
                => (expires_at'[t] = None /\ value'[t] = v /\ key'[t] = k)
          /\ (SetInsert(t) /\ key[t] \in DOMAIN store) =>
                /\ store'[key[t]] = CacheEntry(value[t], expires_at[t])
                /\ DOMAIN store' = DOMAIN store
                /\ \A j \in DOMAIN store \ {key[t]} : store'[j] = store[j]
      ]_vars

\* a set has just replaced the only stored entry, and the entry now never
\* expires
C16_Witness ==
    /\ ret = Ret("set", None, None, TRUE, {})
    /\ \E k \in Keys : DOMAIN store = {k} /\ store[k].expires_at = None
    /\ default_ttl = None

\* C17: delete(k) answers true exactly when the call removed an entry for k,
\* that is when one was stored (expired or not), and false when none was;
\* after it k is not stored and every other key has the entry it had.
C17_Delete ==
    [][\A t \in Threads : \A k \in Keys :
          Delete(t, k) =>
             /\ ret' = Ret("delete", k, None, k \in DOMAIN store, {})
             /\ ret'.removed <=> (k \in DOMAIN store /\ k \notin DOMAIN store')
             /\ k \notin DOMAIN store'
             /\ DOMAIN store' = DOMAIN store \ {k}
             /\ \A j \in DOMAIN store' : store'[j] = store[j]
      ]_vars

\* a delete has just removed an entry and answered true; another key is
\* still stored
C17_Witness ==
    /\ ret.op = "delete"
    /\ ret.removed
    /\ ret.key \notin DOMAIN store
    /\ DOMAIN store # {}

\* C18: the sweep of cleanup_expired removes exactly the entries whose expiry
\* has passed at the instant the sweep read the clock (its `now`), so nothing
\* it removes is unexpired; the entries with no expiry and those whose expiry
\* has not passed stay, with the value and expiry they had, and they are all
\* that size() counts when the sweep is done.
C18_Cleanup ==
    [][\A t \in Threads :
          CleanupRetain(t) =>
             /\ DOMAIN store' = {k \in DOMAIN store : ~Passed(store[k], now[t])}
             /\ \A k \in DOMAIN store \ DOMAIN store' : Passed(store[k], clock)
             /\ \A k \in DOMAIN store' : store'[k] = store[k]
             /\ Cardinality(DOMAIN store') =
                   Cardinality({k \in DOMAIN store :
                                   store[k].expires_at = None \/ store[k].expires_at >= now[t]})
      ]_vars

\* a sweep has just removed an entry and kept one that has an expiry
C18_Witness ==
    /\ ret = Ret("cleanup_expired", None, None, TRUE, {})
    /\ \E k \in DOMAIN store : store[k].expires_at # None /\ ~Passed(store[k], clock)

(* --------------------- TimedCache claims, continued -------------------- *)

\* C13: TimedCache::new never fails; built with capacity 0 the store has
\* capacity 100, built with a capacity >= 1 it has that capacity; it never
\* holds more keys than that, and a set evicts exactly when it brings a new
\* key to a store that already holds as many keys as its capacity (for
\* capacity 0: on the 101st distinct key, not before).
C13_ZeroCapacity ==
    /\ [](timed_cap = IF capacity_arg = 0 THEN 100 ELSE capacity_arg)
    /\ [](Len(timed_inner) <= IF capacity_arg = 0 THEN 100 ELSE capacity_arg)
    /\ [][\A k \in FillKeys :
             TimedSet(k, 1) =>
                LET full == Len(timed_inner) = IF capacity_arg = 0 THEN 100 ELSE capacity_arg
                IN  /\ tret'.removed # {} <=> (full /\ ~LruContains(timed_inner, k))
                    /\ LruContains(timed_inner', k)]_vars

\* a store built with capacity 0 holds keys 2..101 after the set of key 101
\* evicted key 1
C13_Witness ==
    /\ capacity_arg = 0
    /\ Len(timed_inner) = 100
    /\ tret = TRet("set", 101, None, {1})
    /\ SeqKeys(timed_inner) = 2..101

\* C19: a get that returns None, of a key that is not stored or of a stored
\* key whose TTL has elapsed, is no use of any key: the other stored entries
\* stay, in the same recency order (so the next eviction takes the same one
\* of them), and the key itself is not stored afterwards.
C19_AbsentGetNoUse ==
    [][\A k \in TimedKeys :
          (TimedGet(k) /\ tret'.val = None) =>
             LET Others(c) == SelectSeq(c, LAMBDA e : e.key # k)
             IN  /\ Others(timed_inner') = Others(timed_inner)
                 /\ timed_inner' = Others(timed_inner)
                 /\ used' = SelectSeq(used, LAMBDA x : x # k)
                 /\ ~LruContains(timed_inner, k) => timed_inner' = timed_inner
      ]_vars

\* a get of an expired key has just returned None and removed the key; two
\* other keys are stored, the less recent of them being the next victim
C19_Witness ==
    /\ tret.op = "get" /\ tret.val = None /\ tret.removed = {tret.key}
    /\ Len(timed_inner) = 2
    /\ used = <<timed_inner[1].key, timed_inner[2].key>>

\* C21: a set of a key that is already stored, on a full store or not,
\* removes no key and leaves the number of entries as it was; the key's entry
\* becomes the new value stamped with the current time and is the most
\* recently used, and the other entries stay as they were, in the same order.
C21_OverwriteNeverEvicts ==
    [][\A k \in TimedKeys : \A v \in Values :
          (TimedSet(k, v) /\ LruContains(timed_inner, k)) =>
             /\ tret'.removed = {}
             /\ SeqKeys(timed_inner') = SeqKeys(timed_inner)
             /\ Len(timed_inner') = Len(timed_inner)
             /\ timed_inner'[1] = TimedEntry(k, v, clock)
             /\ used'[1] = k
             /\ SelectSeq(timed_inner', LAMBDA e : e.key # k)
                   = SelectSeq(timed_inner, LAMBDA e : e.key # k)
      ]_vars

\* a full store of capacity 2 has just had a stored key overwritten with
\* another value at a later time: both keys are still there
C21_Witness ==
    /\ tret.op = "set" /\ tret.val # None /\ tret.removed = {}
    /\ timed_cap = 2 /\ Len(timed_inner) = 2
    /\ timed_inner[1].key = tret.key
    /\ timed_inner[1].value # tret.val
    /\ timed_inner[1].inserted_at = clock
    /\ timed_inner[2].inserted_at < clock

(* ----------------- GroupHistoryCache claims, continued ----------------- *)

\* C20: one add puts the entry at the tail of the group's history and, only
\* when the length then exceeds max_entries_per_group, removes the entry at
\* index 0 and no other: the history after the add is the old one plus the
\* entry, or that without its first element, and its length is the old
\* length plus one or the old length, never less.
C20_AddRemovesAtMostOne ==
    [][\A g \in Groups : \A entry \in HistoryEntries :
          GroupAdd(g, entry) =>
             LET old == IF g \in DOMAIN group_inner THEN group_inner[g] ELSE <<>>
                 new == group_inner'[g]
                 pushed == old \o <<entry>>
             IN  /\ g \in DOMAIN group_inner'
                 /\ IF Len(old) + 1 > max_entries_per_group
                    THEN new = SubSeq(pushed, 2, Len(pushed))
                    ELSE new = pushed
                 /\ Len(new) \in {Len(old), Len(old) + 1}
                 /\ \A i \in 2..Len(old) : \E j \in 1..Len(new) : new[j] = old[i]
      ]_vars

\* an add on a full history of two or more entries has just dropped the
\* oldest one: the history is the last max_entries_per_group arrivals
C20_Witness ==
    /\ gret.op = "add"
    /\ max_entries_per_group >= 2
    /\ Len(arrivals[gret.group]) > max_entries_per_group
    /\ Len(group_inner[gret.group]) = max_entries_per_group
    /\ group_inner[gret.group][max_entries_per_group]
          = arrivals[gret.group][Len(arrivals[gret.group])]

(* --------------------------- claims on all stores ---------------------- *)

\* C14: a lookup of something absent returns "nothing" and changes nothing:
\* GroupHistoryCache::get of a group that is not stored returns the empty
\* list and does not create the group, clear_group of such a group leaves
\* the groups as they are, and Cache::get and TimedCache::get of a key that
\* is not stored return None and leave the map as it is.
C14_AbsentLookups ==
    [][/\ \A g \in Groups :
            (GroupGet(g) /\ g \notin DOMAIN group_inner)
            => (gret' = GRet("get", g, <<>>) /\ group_inner' = group_inner)
       /\ \A g \in Groups :
            (GroupClear(g) /\ g \notin DOMAIN group_inner)
            => group_inner' = group_inner
       /\ \A t \in Threads : \A k \in Keys :
            (GetRead(t, k) /\ k \notin DOMAIN store)
            => (ret' = Ret("get", k, None, FALSE, {}) /\ store' = store /\ pc'[t] = "idle")
       /\ \A k \in TimedKeys :
            (TimedGet(k) /\ ~LruContains(timed_inner, k))
            => (tret' = TRet("get", k, None, {}) /\ timed_inner' = timed_inner)
      ]_vars

\* a group that is not stored was looked up, next to a group that is stored:
\* the answer is empty and the group is still not stored
C14_Witness ==
    /\ gret.op = "get"
    /\ gret.group \notin DOMAIN group_inner
    /\ gret.entries = <<>>
    /\ DOMAIN group_inner # {}

\* C22: a read never extends a lifetime. A Cache::get that returns a value
\* (it finds the key stored and returns from its read step) leaves the whole map, expiries included, as it was, and a stored key's
\* expiry changes only in the insert of a set of that key. A TimedCache::get
\* that returns a value leaves every entry, the key's inserted_at included,
\* as it was and changes at most the recency order, and a stored key's
\* inserted_at changes only in a set of that key.
C22_NoSlidingExpiration ==
    [][/\ \A t \in Threads : \A k \in Keys :
            (GetRead(t, k) /\ k \in DOMAIN store /\ pc'[t] = "idle")
            => (store' = store /\ ret' = Ret("get", k, store[k].value, FALSE, {})
                /\ default_ttl' = default_ttl)
       /\ \A k \in DOMAIN store \cap DOMAIN store' :
            store'[k].expires_at # store[k].expires_at
            => \E t \in Threads : key[t] = k /\ SetInsert(t)
       /\ \A k \in TimedKeys :
            (TimedGet(k) /\ tret'.val # None)
            => /\ SeqKeys(timed_inner') = SeqKeys(timed_inner)
               /\ \A j \in SeqKeys(timed_inner) :
                     LruEntry(timed_inner', j) = LruEntry(timed_inner, j)
               /\ timed_inner'[1].key = k
               /\ timed_ttl' = timed_ttl
       /\ \A k \in SeqKeys(timed_inner) \cap SeqKeys(timed_inner') :
            LruEntry(timed_inner', k).inserted_at # LruEntry(timed_inner, k).inserted_at
            => \E v \in Values : TimedSet(k, v)
      ]_vars

\* a TimedCache::get has just returned the value of a key that was set at an
\* earlier time: the key is now the most recent of two and keeps its stamp
C22_Witness ==
    /\ tret.op = "get" /\ tret.val # None
    /\ Len(timed_inner) >= 2
    /\ timed_inner[1].key = tret.key
    /\ timed_inner[1].inserted_at < clock
    /\ timed_inner[1].inserted_at < timed_inner[2].inserted_at

=============================================================================
